---- MODULE Spec2Model ----
(***************************************************************************)
(* A model of the vox_dialog audio pipeline:                               *)
(*   - whisper_common.py : device choice, container sniffing, staging,     *)
(*                         normalization, release of staged files          *)
(*   - whisper_faster.py : the batched backend and its command line        *)
(*   - whisper_vanilla.py: the process backend and its command line        *)
(*   - tts_with_accents.py: accent table, shaping chain, synthesis main    *)
(*                                                                         *)
(* Three specifications share the module's variables:                      *)
(*   Spec      one invocation of a transcription command line              *)
(*   SpecSynth one invocation of the synthesis command line                *)
(*   SpecSniff detect_audio_format applied to a byte buffer                *)
(* A specification leaves the variables of the other two at their idle     *)
(* values.                                                                 *)
(***************************************************************************)
EXTENDS Integers, Sequences, FiniteSets, TLC

VARIABLES
    \* ---- transcription command line (whisper_faster.py / whisper_vanilla.py main)
    pc,          \* position in main
    backend,     \* "faster" | "vanilla": which script runs
    args,        \* the parsed command line
    env,         \* what the probes of this machine answer
    fs,          \* the files that exist on storage
    temp_files,  \* main's temp_files list
    audio_file,  \* main's audio_file (<<>> is None)
    wav_file,    \* main's wav_file (<<>> is None)
    result,      \* the record the backend returned (<<>> before)
    stdout,      \* the documents printed to standard output
    stderr,      \* the lines printed to the error stream
    exit_code,   \* <<>> while running, <<c>> once the process has exited
    pending,     \* what runs after the finally block: "return", "exit1"
    vad_parameters, \* main's parsed --vad-parameters (<<>> is None)
    hist,        \* what the invocation did: external calls, loads, removals
    \* ---- synthesis command line (tts_with_accents.py main)
    tpc, targs, tengine, twav, tlog,
    \* ---- detect_audio_format on its own
    spc, buf, fmt

vars == <<pc, backend, args, env, fs, temp_files, audio_file, wav_file, result,
          stdout, stderr, exit_code, pending, vad_parameters, hist,
          tpc, targs, tengine, twav, tlog, spc, buf, fmt>>

cliVars == <<pc, backend, args, env, fs, temp_files, audio_file, wav_file,
             result, stdout, stderr, exit_code, pending, vad_parameters, hist>>
synthVars == <<tpc, targs, tengine, twav, tlog>>
sniffVars == <<spc, buf, fmt>>

\* ------------------------------------------------------------------ helpers

None == <<>>

Last(s) == s[Len(s)]

Take(s, n) == SubSeq(s, 1, IF n < Len(s) THEN n ELSE Len(s))

Range(s) == {s[i] : i \in 1..Len(s)}

\* Python slice s[a:b] of a bytes or list value (0-based, end exclusive, clipped).
Slice(s, a, b) ==
    LET hi == IF b < Len(s) THEN b ELSE Len(s)
    IN  IF a >= hi THEN <<>> ELSE SubSeq(s, a + 1, hi)

\* --------------------------------------------------- whisper_common: sniffing

\* Byte strings the sniffer compares against.
MagicWebm == <<26, 69, 223, 163>>
MagicRIFF == <<82, 73, 70, 70>>
MagicWAVE == <<87, 65, 86, 69>>
MagicFtyp == <<102, 116, 121, 112>>
SyncFFFB  == <<255, 251>>
SyncFFFA  == <<255, 250>>

\* The mutants of detect_audio_format used by the claims' checks.
detect_audio_format_unknown_fallback(audio_data) ==
    IF Len(audio_data) < 12 THEN "unknown"
    ELSE IF Slice(audio_data, 0, 4) = MagicWebm THEN "webm"
    ELSE IF Slice(audio_data, 0, 4) = MagicRIFF
            /\ Slice(audio_data, 8, 12) = MagicWAVE THEN "wav"
    ELSE IF Slice(audio_data, 0, 2) \in {SyncFFFB, SyncFFFA} THEN "mp3"
    ELSE IF Slice(audio_data, 4, 8) = MagicFtyp THEN "m4a"
    ELSE "unknown"

detect_audio_format(audio_data) ==
    IF Len(audio_data) < 12 THEN "unknown"
    ELSE IF Slice(audio_data, 0, 4) = MagicWebm THEN "webm"
    ELSE IF Slice(audio_data, 0, 4) = MagicRIFF
            /\ Slice(audio_data, 8, 12) = MagicWAVE THEN "wav"
    ELSE IF Slice(audio_data, 0, 2) \in {SyncFFFB, SyncFFFA} THEN "mp3"
    ELSE IF Slice(audio_data, 4, 8) = MagicFtyp THEN "m4a"
    ELSE "webm"

\* ------------------------------------------------------ whisper_common: paths

\* A path is a sequence of tokens: names, "/" and ".". The string methods the
\* code applies to paths are modelled on the tokens.
Lower(tok) == IF tok = "WAV" THEN "wav" ELSE tok

\* A plausible slip: the test without .lower().
EndsWithDotWavCaseSensitive(file_path) ==
    /\ Len(file_path) >= 2
    /\ file_path[Len(file_path) - 1] = "."
    /\ file_path[Len(file_path)] = "wav"

\* file_path.lower().endswith('.wav')
EndsWithDotWav(file_path) ==
    /\ Len(file_path) >= 2
    /\ file_path[Len(file_path) - 1] = "."
    /\ Lower(file_path[Len(file_path)]) = "wav"

\* file_path.rsplit('.', 1)[0]: what precedes the last ".", the whole string
\* when it holds none.
RSplitDotHead(file_path) ==
    LET dots == {i \in 1..Len(file_path) : file_path[i] = "."}
    IN  IF dots = {} THEN file_path
        ELSE SubSeq(file_path, 1,
                    (CHOOSE i \in dots : \A j \in dots : j <= i) - 1)

WavPathKeepsName(file_path) == file_path \o <<".", "wav">>

WavPath(file_path) == RSplitDotHead(file_path) \o <<".", "wav">>

\* tempfile.gettempdir() joined with whisper_<pid>_<hash % 999999>.<format>
TempPath(format_hint) == <<"tmp", "/", "whisper_pid_hash", ".", format_hint>>

\* ---------------------------------------------------- whisper_common: device

detect_best_device_mps_first(e) ==
    IF e.mps THEN "mps" ELSE IF e.cuda THEN "cuda" ELSE "cpu"

detect_best_device(e) ==
    IF e.cuda THEN "cuda" ELSE IF e.mps THEN "mps" ELSE "cpu"

\* The compute-capability major version from which float16 is chosen.
CapThreshold == 7

\* cap is <<>> when torch.cuda.get_device_capability() raises, else <<major>>.
get_compute_type_for_device(device, requested_compute_type, cap) ==
    IF requested_compute_type # "auto" THEN requested_compute_type
    ELSE IF device = "cuda"
         THEN IF cap # <<>> /\ cap[1] >= CapThreshold THEN "float16"
              ELSE "float32"
    ELSE IF device = "mps" THEN "float32"
    ELSE "float32"

\* ------------------------------------------------------------------- bounds

MaxCores == 2     \* physical core counts probed: 1..MaxCores
MaxSegs == 2      \* segments the engine yields per call: 0..MaxSegs

\* ----------------------------------------------- whisper_faster: model table

MODEL_REPOSITORIES ==
    [m \in {"tiny", "base", "small", "medium", "large-v3", "large",
            "tiny.en", "base.en", "small.en", "medium.en",
            "distil-small.en", "distil-medium.en", "distil-large-v3",
            "distil-large"} |->
        CASE m = "tiny" -> "whisper-tiny-ct2-float32"
          [] m = "base" -> "whisper-base-ct2-float32"
          [] m = "small" -> "whisper-small-ct2-float32"
          [] m = "medium" -> "whisper-medium-ct2-float32"
          [] m = "large-v3" -> "whisper-large-v3-ct2-float32"
          [] m = "large" -> "whisper-large-v3-ct2-float32"
          [] m = "tiny.en" -> "whisper-tiny.en-ct2-float32"
          [] m = "base.en" -> "whisper-base.en-ct2-float32"
          [] m = "small.en" -> "whisper-small.en-ct2-float32"
          [] m = "medium.en" -> "whisper-medium.en-ct2-float32"
          [] m = "distil-small.en" -> "distil-whisper-small.en-ct2-float32"
          [] m = "distil-medium.en" -> "distil-whisper-medium.en-ct2-float32"
          [] m = "distil-large-v3" -> "distil-whisper-large-v3-ct2-float32"
          [] m = "distil-large" -> "distil-whisper-large-v3-ct2-float32"]

\* A plausible slip: an unknown name falls back to the default model.
get_model_repository_default(model_name) ==
    IF model_name \in DOMAIN MODEL_REPOSITORIES
    THEN <<MODEL_REPOSITORIES[model_name]>>
    ELSE <<MODEL_REPOSITORIES["tiny"]>>

\* <<>> is None, <<repo>> a repository.
get_model_repository(model_name) ==
    IF model_name \in DOMAIN MODEL_REPOSITORIES
    THEN <<MODEL_REPOSITORIES[model_name]>>
    ELSE None

get_available_models == DOMAIN MODEL_REPOSITORIES

\* ------------------------------------------------------------- text of a file

\* A text is a sequence of characters; " " is the only whitespace used.
RECURSIVE LStrip(_)
LStrip(s) == IF s # <<>> /\ s[1] = " " THEN LStrip(Tail(s)) ELSE s

RECURSIVE RStrip(_)
RStrip(s) ==
    IF s # <<>> /\ s[Len(s)] = " " THEN RStrip(SubSeq(s, 1, Len(s) - 1)) ELSE s

\* str.strip()
Strip(s) == LStrip(RStrip(s))

\* " ".join(parts)
RECURSIVE Join(_)
Join(parts) ==
    IF parts = <<>> THEN <<>>
    ELSE IF Len(parts) = 1 THEN parts[1]
    ELSE parts[1] \o <<" ">> \o Join(Tail(parts))

\* The placeholder text of a transcript with no speech.
NoSpeech == <<"[No speech detected]">>

\* ------------------------------------------------ whisper_faster: the backend

\* cpu_threads handed to the engine on a GPU device.
GpuThreads == 4

VadDefaults ==
    [threshold_x10 |-> 5, min_speech_duration_ms |-> 250,
     max_speech_duration_s |-> 30, min_silence_duration_ms |-> 2000,
     speech_pad_ms |-> 400]

\* A caller's --vad-parameters object, parsed.
VadCustom ==
    [threshold_x10 |-> 3, min_speech_duration_ms |-> 100,
     max_speech_duration_s |-> 10, min_silence_duration_ms |-> 500,
     speech_pad_ms |-> 200]

ErrorRecord(kind, lists) == [error |-> [kind |-> kind, lists |-> lists]]

\* A plausible slip: the precision follows the device decision.
FasterComputeTypeAuto(e) ==
    get_compute_type_for_device(detect_best_device(e), "auto", e.cap)

\* compute_type = "float32" ("Always use float32 for consistency")
FasterComputeType(e) == "float32"

\* A plausible slip: the joined text is returned as it is, empty or not.
TranscriptTextRaw(full_text) == full_text

\* full_text if full_text else "[No speech detected]"
TranscriptText(full_text) == IF full_text # <<>> THEN full_text ELSE NoSpeech

\* The engine's answers to one call: o.load_raises (WhisperModel(...) raises),
\* o.transcribe_raises (model.transcribe or the segment generator raises),
\* o.segments (the texts of the segments it yields), o.info.
\* The value is what the function returns together with what it did:
\* loads (the WhisperModel(...) calls), calls (model.transcribe calls),
\* released (del model; gc.collect() ran on a loaded model).
transcribe_with_faster_whisper(audio_file_path, model_size, vad_filter, vad_params_in, language, e, o) ==
    LET device == detect_best_device(e)
        compute_type == FasterComputeType(e)
        model_repo == get_model_repository(model_size)
        cpu_threads == IF device = "cpu" THEN e.cores ELSE GpuThreads
        load == [repo |-> IF model_repo = None THEN "" ELSE model_repo[1],
                 device |-> device,
                 compute_type |-> compute_type, cpu_threads |-> cpu_threads]
        vad_params == IF vad_filter /\ vad_params_in # None THEN vad_params_in
                      ELSE IF vad_filter THEN <<VadDefaults>> ELSE None
        call == [path |-> audio_file_path,
                 language |-> IF language # "auto" THEN <<language>> ELSE None,
                 vad_filter |-> vad_filter, vad_parameters |-> vad_params]
        text_segments == [i \in 1..Len(o.segments) |-> Strip(o.segments[i])]
        full_text == Strip(Join(text_segments))
    IN  IF model_repo = None
        THEN [result |-> ErrorRecord("unknown_model", get_available_models),
              loads |-> <<>>, calls |-> <<>>, released |-> 0]
        ELSE IF o.load_raises
        THEN [result |-> ErrorRecord("faster_failed", {}),
              loads |-> <<load>>, calls |-> <<>>, released |-> 0]
        ELSE IF o.transcribe_raises
        THEN [result |-> ErrorRecord("faster_failed", {}),
              loads |-> <<load>>, calls |-> <<call>>, released |-> 1]
        ELSE [result |->
                [text |-> TranscriptText(full_text),
                 backend |-> "faster",
                 model |-> model_size,
                 model_repository |-> model_repo[1],
                 language |-> o.info.language,
                 language_probability |-> o.info.language_probability,
                 duration |-> o.info.duration,
                 compute_type |-> compute_type,
                 device |-> device,
                 vad_filter |-> vad_filter,
                 cpu_threads |-> cpu_threads],
              loads |-> <<load>>, calls |-> <<call>>, released |-> 1]

\* ----------------------------------------------- whisper_vanilla: the backend

\* A record with a "text" key: a transcript, not an error record.
HasTextField(r) == "text" \in DOMAIN r


\* os.path.basename(path): what follows the last "/".
Basename(path) ==
    LET slashes == {i \in 1..Len(path) : path[i] = "/"}
    IN  IF slashes = {} THEN path
        ELSE SubSeq(path, (CHOOSE i \in slashes : \A j \in slashes : j <= i) + 1,
                    Len(path))

\* os.path.splitext(name)[0]: the name without its last extension; a leading
\* "." starts no extension.
SplitExtRoot(name) ==
    LET dots == {i \in 2..Len(name) : name[i] = "."}
    IN  IF dots = {} THEN name
        ELSE SubSeq(name, 1, (CHOOSE i \in dots : \A j \in dots : j <= i) - 1)

\* A file the tool may leave in the output directory besides the transcript.
OtherOutput == <<"other", ".", "srt">>

\* A plausible slip: a failed run of the tool read as silence, not as an error.
transcribe_vanilla_missing_is_silence(audio_file_path, model, language, o) ==
    LET record == [text |-> NoSpeech, backend |-> "vanilla", model |-> model,
                   language |-> language]
        res == IF o.kind = "raises" THEN ErrorRecord("vanilla_failed", {})
               ELSE IF o.returncode # 0 THEN record
               ELSE IF "txt" \notin o.wrote THEN record
               ELSE IF o.read_raises \/ o.remove_raises
                    THEN ErrorRecord("vanilla_failed", {})
               ELSE [record EXCEPT !.text = IF Strip(o.text) # <<>>
                                            THEN Strip(o.text) ELSE NoSpeech]
    IN  [result |-> res,
         whisper_calls |-> <<[audio |-> audio_file_path, model |-> model,
                              language |-> language]>>,
         rmdir |-> 1, outdir_removed |-> FALSE]

\* One call of the backend, the files being those of the private output
\* directory. The external tool's part is o:
\*   o.kind "raises"  subprocess.run raises (the tool cannot be started)
\*   o.kind "exit"    it ends with o.returncode, having written the files
\*                    o.wrote names: "txt" is <base name>.txt with content
\*                    o.text, "other" any other file
\*   o.read_raises    reading the transcript raises
\*   o.remove_raises  os.remove of the transcript raises
\* The value is the record returned, the commands run, the number of
\* os.rmdir attempts and whether the directory was removed (it is when empty).
transcribe_with_vanilla_whisper(audio_file_path, model, language, o) ==
    LET cmd == [audio |-> audio_file_path, model |-> model,
                language |-> language]
        base_name == SplitExtRoot(Basename(audio_file_path))
        txt_file == base_name \o <<".", "txt">>
        output_dir ==
            IF o.kind = "exit"
            THEN {txt_file : x \in o.wrote \cap {"txt"}}
                 \cup {OtherOutput : x \in o.wrote \cap {"other"}}
            ELSE {}
        text == Strip(o.text)
        raised == \/ o.kind = "raises"
                  \/ /\ o.returncode = 0 /\ txt_file \in output_dir
                     /\ (o.read_raises \/ o.remove_raises)
        res == IF o.kind = "raises" THEN ErrorRecord("vanilla_failed", {})
               ELSE IF o.returncode # 0
                    THEN ErrorRecord("whisper_cli_failed", {})
               ELSE IF txt_file \in output_dir
                    THEN IF raised THEN ErrorRecord("vanilla_failed", {})
                         ELSE [text |-> IF text # <<>> THEN text ELSE NoSpeech,
                               backend |-> "vanilla",
                               model |-> model,
                               language |-> language]
               ELSE ErrorRecord("output_not_found", {})
        left == IF HasTextField(res) THEN output_dir \ {txt_file}
                ELSE output_dir
    IN  [result |-> res, whisper_calls |-> <<cmd>>, rmdir |-> 1,
         outdir_removed |-> left = {}]

\* ------------------------------------------------- the inputs of an invocation

\* What the probes of the machine answer. cores is read on a cpu device only
\* (psutil.cpu_count is evaluated only there); cap is the compute capability
\* of a cuda device, <<>> when reading it raises.
Envs ==
    {[cuda |-> FALSE, mps |-> FALSE, cap |-> <<>>, cores |-> c] :
        c \in 1..MaxCores}
    \cup {[cuda |-> FALSE, mps |-> TRUE, cap |-> <<>>, cores |-> 1]}
    \cup {[cuda |-> TRUE, mps |-> m, cap |-> k, cores |-> 1] :
            m \in BOOLEAN,
            k \in {<<>>, <<CapThreshold - 1>>, <<CapThreshold>>,
                   <<CapThreshold + 1>>}}

NoEnv == [cuda |-> FALSE, mps |-> FALSE, cap |-> <<>>, cores |-> 0]

\* Decoded payloads of a base64 invocation.
Blobs ==
    { <<>>,
      MagicRIFF \o <<0, 0, 0, 0>> \o MagicWAVE,
      MagicWebm \o <<0, 0, 0, 0>> \o <<0, 0, 0, 0>>,
      SyncFFFB \o <<0, 0>> \o <<0, 0, 0, 0>> \o <<0, 0, 0, 0>>,
      <<0, 0, 0, 0>> \o MagicFtyp \o <<0, 0, 0, 0>>,
      <<0, 0, 0, 0, 0, 0, 0, 0, 0, 0, 0, 0>> }

\* Paths of a file invocation.
InputPaths ==
    { <<"in", ".", "wav">>, <<"in", ".", "WAV">>, <<"in", ".", "mp3">>,
      <<"in">>, <<"d", ".", "x", "/", "in">> }

Inputs ==
    {[input_type |-> "base64", b64_valid |-> FALSE, bytes |-> <<>>,
      path |-> <<>>]}
    \cup {[input_type |-> "base64", b64_valid |-> TRUE, bytes |-> b,
           path |-> <<>>] : b \in Blobs}
    \cup {[input_type |-> "file", b64_valid |-> TRUE, bytes |-> <<>>,
           path |-> p] : p \in InputPaths}

FasterArgs ==
    {[list_models |-> TRUE, input |-> CHOOSE i \in Inputs : ~i.b64_valid,
      model |-> "tiny", vad_filter |-> FALSE, vad_parameters |-> "",
      language |-> "en"]}
    \cup [list_models : {FALSE}, input : Inputs,
          model : {"tiny", "large", "bogus"},
          vad_filter : BOOLEAN,
          vad_parameters : {"", "{custom}", "{bad"},
          language : {"en", "auto"}]

VanillaArgs ==
    [list_models : {FALSE}, input : Inputs, model : {"tiny", "bogus"},
     vad_filter : {FALSE}, vad_parameters : {""}, language : {"en"}]

\* The files on storage when the invocation starts: the input file of a file
\* invocation and, possibly, a file that already carries the name the
\* normalized copy will get.
InitialStorage(a) ==
    IF a.input.input_type = "file"
    THEN {{a.input.path}, {a.input.path, WavPath(a.input.path)}}
    ELSE {{}}

SegTexts == { <<" ">>, <<"a">>, <<" ", "b", " ">> }

SegSeqs == UNION {[1..n -> SegTexts] : n \in 0..MaxSegs}

EngineInfo == [language |-> "en", language_probability |-> 1, duration |-> 0]

FasterOutcomes ==
    {[load_raises |-> TRUE, transcribe_raises |-> FALSE, segments |-> <<>>,
      info |-> EngineInfo],
     [load_raises |-> FALSE, transcribe_raises |-> TRUE, segments |-> <<>>,
      info |-> EngineInfo]}
    \cup {[load_raises |-> FALSE, transcribe_raises |-> FALSE, segments |-> sg,
           info |-> EngineInfo] : sg \in SegSeqs}

VanillaOutcomes ==
    {[kind |-> "raises", returncode |-> 0, wrote |-> {}, text |-> <<>>,
      read_raises |-> FALSE, remove_raises |-> FALSE]}
    \cup {[kind |-> "exit", returncode |-> 1, wrote |-> w, text |-> <<>>,
           read_raises |-> FALSE, remove_raises |-> FALSE] :
            w \in {{}, {"other"}, {"txt"}}}
    \cup {[kind |-> "exit", returncode |-> 0, wrote |-> w, text |-> <<>>,
           read_raises |-> FALSE, remove_raises |-> FALSE] :
            w \in {{}, {"other"}}}
    \cup {[kind |-> "exit", returncode |-> 0, wrote |-> w, text |-> t,
           read_raises |-> FALSE, remove_raises |-> r] :
            w \in {{"txt"}, {"txt", "other"}}, t \in {<<>>} \cup SegTexts,
            r \in BOOLEAN}
    \cup {[kind |-> "exit", returncode |-> 0, wrote |-> {"txt"}, text |-> <<>>,
           read_raises |-> TRUE, remove_raises |-> FALSE]}

NoHist ==
    [ffmpeg |-> <<>>, backend_in |-> <<>>, loads |-> <<>>, calls |-> <<>>,
     released |-> 0, whisper_calls |-> <<>>, rmdir |-> 0, tool |-> <<>>,
     outdir_removed |-> <<>>, removed |-> <<>>,
     remove_failed |-> {}, staged |-> {}, initial |-> {}, overwritten |-> {},
     segments |-> <<>>, txt |-> <<>>]

IdleCli ==
    /\ pc = "idle" /\ backend = "none"
    /\ args = CHOOSE a \in FasterArgs : a.list_models
    /\ env = NoEnv /\ fs = {} /\ temp_files = <<>>
    /\ audio_file = None /\ wav_file = None /\ result = None
    /\ stdout = <<>> /\ stderr = <<>> /\ exit_code = None
    /\ pending = "return" /\ vad_parameters = None /\ hist = NoHist

IdleSynth ==
    /\ tpc = "idle" /\ targs = <<>> /\ tengine = <<>> /\ twav = <<>>
    /\ tlog = <<>>

IdleSniff == spc = "idle" /\ buf = <<>> /\ fmt = "none"

Init ==
    /\ pc = "start"
    /\ backend \in {"faster", "vanilla"}
    /\ args \in (IF backend = "faster" THEN FasterArgs ELSE VanillaArgs)
    /\ env = NoEnv
    /\ fs \in InitialStorage(args)
    /\ temp_files = <<>>
    /\ audio_file = None /\ wav_file = None /\ result = None
    /\ stdout = <<>> /\ stderr = <<>> /\ exit_code = None
    /\ pending = "return" /\ vad_parameters = None
    /\ hist = [NoHist EXCEPT !.initial = fs]
    /\ IdleSynth /\ IdleSniff

\* ------------------------------------------------------ the steps of main()

Stdout(doc) == stdout' = Append(stdout, doc)

\* whisper_faster.py --list-models: print the listing, sys.exit(0).
ListModels ==
    /\ pc = "start" /\ backend = "faster" /\ args.list_models
    /\ Stdout([available_models |-> get_available_models])
    /\ exit_code' = <<0>>
    /\ pc' = "exited"
    /\ UNCHANGED <<backend, args, env, fs, temp_files, audio_file, wav_file,
                   result, stderr, pending, vad_parameters, hist>>
    /\ UNCHANGED <<synthVars, sniffVars>>

\* whisper_vanilla.py: detect_best_device(), device_info to the error stream.
ProbeDevice ==
    /\ pc = "start" /\ backend = "vanilla"
    /\ \E e \in Envs :
         /\ env' = e
         /\ stderr' = Append(stderr, "device_info")
    /\ pc' = "check"
    /\ UNCHANGED <<backend, args, fs, temp_files, audio_file, wav_file, result,
                   stdout, exit_code, pending, vad_parameters, hist>>
    /\ UNCHANGED <<synthVars, sniffVars>>

\* check_faster_whisper_availability() / check_whisper_availability():
\* unavailable prints the error record and sys.exit(1), outside the try.
CheckAvailability ==
    /\ \/ pc = "start" /\ backend = "faster" /\ ~args.list_models
       \/ pc = "check" /\ backend = "vanilla"
    /\ \E available \in BOOLEAN :
         IF available
         THEN /\ pc' = "stage"
              /\ UNCHANGED <<stdout, exit_code>>
         ELSE /\ Stdout(ErrorRecord("not_available", {}))
              /\ exit_code' = <<1>>
              /\ pc' = "exited"
    /\ UNCHANGED <<backend, args, env, fs, temp_files, audio_file, wav_file,
                   result, stderr, pending, vad_parameters, hist>>
    /\ UNCHANGED <<synthVars, sniffVars>>

\* input_type == 'base64': b64decode, save_audio_to_temp_file, and the
\* "Failed to save audio data" exit. The write may fail before or after the
\* file came to exist.
StageBase64 ==
    /\ pc = "stage" /\ args.input.input_type = "base64"
    /\ IF ~args.input.b64_valid
       THEN /\ pc' = "except"
            /\ UNCHANGED <<fs, temp_files, audio_file, stdout, stderr,
                           pending, hist>>
       ELSE LET temp_file_path ==
                    TempPath(detect_audio_format(args.input.bytes))
            IN  \E saved \in {"ok", "fail", "fail_partial"} :
                  IF saved = "ok"
                  THEN /\ fs' = fs \cup {temp_file_path}
                       /\ audio_file' = temp_file_path
                       /\ temp_files' = Append(temp_files, temp_file_path)
                       /\ hist' = [hist EXCEPT
                                     !.staged = @ \cup {temp_file_path},
                                     !.overwritten =
                                         @ \cup ({temp_file_path} \cap fs)]
                       /\ pc' = "convert"
                       /\ UNCHANGED <<stdout, stderr, pending>>
                  ELSE /\ fs' = IF saved = "fail_partial"
                                THEN fs \cup {temp_file_path} ELSE fs
                       /\ stderr' = Append(stderr, "Error saving audio")
                       /\ Stdout(ErrorRecord("save_failed", {}))
                       /\ pending' = "exit1"
                       /\ pc' = "finally"
                       /\ UNCHANGED <<audio_file, temp_files, hist>>
    /\ UNCHANGED <<backend, args, env, wav_file, result, exit_code,
                   vad_parameters>>
    /\ UNCHANGED <<synthVars, sniffVars>>

\* input_type == 'file': audio_file = args.audio_data
StageFile ==
    /\ pc = "stage" /\ args.input.input_type = "file"
    /\ audio_file' = args.input.path
    /\ pc' = "convert"
    /\ UNCHANGED <<backend, args, env, fs, temp_files, wav_file, result,
                   stdout, stderr, exit_code, pending, vad_parameters, hist>>
    /\ UNCHANGED <<synthVars, sniffVars>>

\* What convert_to_wav_if_needed returns, given how ffmpeg ended:
\*   "ok" exit 0, "nonzero" CalledProcessError, "nonzero_partial" the same with
\*   the output file left behind. (A missing ffmpeg raises FileNotFoundError,
\*   which the function does not catch: see Convert.)
FfmpegOutcomes == {"ok", "nonzero", "nonzero_partial", "missing"}

\* The ffmpeg commands one call of convert_to_wav_if_needed runs: none for a
\* path that ends in .wav, else one from file_path to wav_path.
FfmpegCommands(file_path) ==
    IF EndsWithDotWav(file_path) THEN <<>>
    ELSE <<[src |-> file_path, dst |-> WavPath(file_path)]>>

convert_fails_closed(file_path, ffmpeg) ==
    IF EndsWithDotWav(file_path) THEN file_path
    ELSE IF ffmpeg = "ok" THEN WavPath(file_path)
    ELSE None

convert_to_wav_if_needed(file_path, ffmpeg) ==
    IF EndsWithDotWav(file_path) THEN file_path
    ELSE IF ffmpeg = "ok" THEN WavPath(file_path)
    ELSE file_path

\* wav_file = convert_to_wav_if_needed(audio_file); the append to temp_files.
Convert ==
    /\ pc = "convert"
    /\ \E ffmpeg \in FfmpegOutcomes :
         LET needed == FfmpegCommands(audio_file) # <<>>
             wav_path == WavPath(audio_file)
             ret == convert_to_wav_if_needed(audio_file, ffmpeg)
         IN  /\ needed \/ ffmpeg = "ok"
             /\ IF needed /\ ffmpeg = "missing"
                THEN /\ pc' = "except"
                     /\ hist' = [hist EXCEPT !.ffmpeg = Append(@,
                                   [src |-> audio_file, dst |-> wav_path,
                                    outcome |-> ffmpeg])]
                     /\ UNCHANGED <<fs, wav_file, temp_files, stderr>>
                ELSE /\ wav_file' = ret
                     /\ fs' = IF needed /\ ffmpeg \in {"ok", "nonzero_partial"}
                              THEN fs \cup {wav_path} ELSE fs
                     /\ stderr' = IF needed /\ ffmpeg # "ok"
                                  THEN Append(stderr, "FFmpeg conversion failed")
                                  ELSE stderr
                     /\ temp_files' = IF ret # audio_file
                                      THEN Append(temp_files, ret)
                                      ELSE temp_files
                     /\ hist' = [hist EXCEPT
                           !.ffmpeg = IF needed
                                      THEN Append(@, [src |-> audio_file,
                                                      dst |-> wav_path,
                                                      outcome |-> ffmpeg])
                                      ELSE @,
                           !.overwritten =
                               IF needed /\ ffmpeg \in {"ok", "nonzero_partial"}
                               THEN @ \cup ({wav_path} \cap fs) ELSE @,
                           !.staged = IF ret # audio_file /\ ret # None
                                      THEN @ \cup {ret} ELSE @]
                     /\ pc' = IF backend = "faster" THEN "vad"
                              ELSE "transcribe"
    /\ UNCHANGED <<backend, args, env, audio_file, result, stdout, exit_code,
                   pending, vad_parameters>>
    /\ UNCHANGED <<synthVars, sniffVars>>

\* Parse --vad-parameters (whisper_faster.py only): malformed JSON prints the
\* error record and sys.exit(1) inside the try.
ParseVadNoExit ==
    /\ pc = "vad"
    /\ IF args.vad_parameters = "{bad"
       THEN /\ Stdout(ErrorRecord("invalid_vad_json", {}))
            /\ pc' = "transcribe"
            /\ UNCHANGED <<vad_parameters, pending>>
       ELSE /\ vad_parameters' = IF args.vad_parameters = "" THEN None
                                 ELSE <<VadCustom>>
            /\ pc' = "transcribe"
            /\ UNCHANGED <<stdout, pending>>
    /\ UNCHANGED <<backend, args, env, fs, temp_files, audio_file, wav_file,
                   result, stderr, exit_code, hist>>
    /\ UNCHANGED <<synthVars, sniffVars>>

ParseVad ==
    /\ pc = "vad"
    /\ IF args.vad_parameters = "{bad"
       THEN /\ Stdout(ErrorRecord("invalid_vad_json", {}))
            /\ pending' = "exit1"
            /\ pc' = "finally"
            /\ UNCHANGED vad_parameters
       ELSE /\ vad_parameters' = IF args.vad_parameters = "" THEN None
                                 ELSE <<VadCustom>>
            /\ pc' = "transcribe"
            /\ UNCHANGED <<stdout, pending>>
    /\ UNCHANGED <<backend, args, env, fs, temp_files, audio_file, wav_file,
                   result, stderr, exit_code, hist>>
    /\ UNCHANGED <<synthVars, sniffVars>>

\* What main does with the record the backend returned: print it; the try
\* block ends and main returns after the finally block.
AfterBackend(r) == "return"

\* result = transcribe_with_faster_whisper(wav_file, ...); print(json.dumps(result))
TranscribeFaster ==
    /\ pc = "transcribe" /\ backend = "faster"
    /\ \E e \in Envs, o \in FasterOutcomes :
         LET t == transcribe_with_faster_whisper(wav_file, args.model,
                      args.vad_filter, vad_parameters, args.language, e, o)
         IN  /\ env' = e
             /\ result' = t.result
             /\ Stdout(t.result)
             /\ stderr' = IF t.loads # <<>>
                          THEN Append(stderr, "Loading faster-whisper model")
                          ELSE stderr
             /\ pending' = AfterBackend(t.result)
             /\ hist' = [hist EXCEPT !.backend_in = Append(@, wav_file),
                                     !.loads = @ \o t.loads,
                                     !.calls = @ \o t.calls,
                                     !.released = @ + t.released,
                                     !.segments = o.segments]
    /\ pc' = "finally"
    /\ UNCHANGED <<backend, args, fs, temp_files, audio_file, wav_file,
                   exit_code, vad_parameters>>
    /\ UNCHANGED <<synthVars, sniffVars>>

\* result = transcribe_with_vanilla_whisper(wav_file, ...); print(json.dumps(result))
TranscribeVanilla ==
    /\ pc = "transcribe" /\ backend = "vanilla"
    /\ \E o \in VanillaOutcomes :
         LET t == transcribe_with_vanilla_whisper(wav_file, args.model,
                                                  args.language, o)
         IN  /\ result' = t.result
             /\ Stdout(t.result)
             /\ pending' = AfterBackend(t.result)
             /\ hist' = [hist EXCEPT !.backend_in = Append(@, wav_file),
                                     !.whisper_calls = @ \o t.whisper_calls,
                                     !.rmdir = @ + t.rmdir,
                                     !.tool = Append(@, o),
                                     !.outdir_removed =
                                         Append(@, t.outdir_removed),
                                     !.txt = o.text]
    /\ pc' = "finally"
    /\ UNCHANGED <<backend, args, env, fs, temp_files, audio_file, wav_file,
                   stderr, exit_code, vad_parameters>>
    /\ UNCHANGED <<synthVars, sniffVars>>

\* except Exception: print the "Unexpected error" record, sys.exit(1).
Except ==
    /\ pc = "except"
    /\ Stdout(ErrorRecord("unexpected", {}))
    /\ pending' = "exit1"
    /\ pc' = "finally"
    /\ UNCHANGED <<backend, args, env, fs, temp_files, audio_file, wav_file,
                   result, stderr, exit_code, vad_parameters, hist>>
    /\ UNCHANGED <<synthVars, sniffVars>>

\* A plausible slip: the release keeps only the last file of the list.
RECURSIVE cleanup_last_only(_, _, _)
cleanup_last_only(file_paths, files, failing) ==
    IF file_paths = <<>>
    THEN [fs |-> files, removed |-> <<>>, warnings |-> <<>>]
    ELSE LET file_path == Last(file_paths)
         IN  IF file_path # None /\ file_path \in files
                /\ file_path \notin failing
             THEN [fs |-> files \ {file_path}, removed |-> <<file_path>>,
                   warnings |-> <<>>]
             ELSE [fs |-> files, removed |-> <<>>, warnings |-> <<>>]

\* cleanup_temp_files(*file_paths) on the storage `files`; os.remove raises on
\* the files of `failing`. The value is the storage left, the files os.remove
\* was called on, and the warnings printed.
RECURSIVE cleanup_temp_files(_, _, _)
cleanup_temp_files(file_paths, files, failing) ==
    IF file_paths = <<>>
    THEN [fs |-> files, removed |-> <<>>, warnings |-> <<>>]
    ELSE LET file_path == Head(file_paths)
         IN  IF file_path # None /\ file_path \in files
             THEN LET raised == file_path \in failing
                      rest == cleanup_temp_files(Tail(file_paths),
                                  IF raised THEN files ELSE files \ {file_path},
                                  failing)
                  IN  [fs |-> rest.fs,
                       removed |-> <<file_path>> \o rest.removed,
                       warnings |-> IF raised
                            THEN <<"Warning: Failed to remove temp file">>
                                 \o rest.warnings
                            ELSE rest.warnings]
             ELSE cleanup_temp_files(Tail(file_paths), files, failing)

\* finally: cleanup_temp_files(*temp_files); then the pending sys.exit(1) or
\* the return of main (exit code 0).
Finally ==
    /\ pc = "finally"
    /\ \E failing \in SUBSET (Range(temp_files) \cap fs) :
         LET c == cleanup_temp_files(temp_files, fs, failing)
         IN  /\ fs' = c.fs
             /\ stderr' = stderr \o c.warnings
             /\ hist' = [hist EXCEPT !.removed = @ \o c.removed,
                                     !.remove_failed = failing]
    /\ exit_code' = IF pending = "exit1" THEN <<1>> ELSE <<0>>
    /\ pc' = "exited"
    /\ UNCHANGED <<backend, args, env, temp_files, audio_file, wav_file,
                   result, stdout, pending, vad_parameters>>
    /\ UNCHANGED <<synthVars, sniffVars>>

Next ==
    \/ ListModels
    \/ ProbeDevice
    \/ CheckAvailability
    \/ StageBase64
    \/ StageFile
    \/ Convert
    \/ ParseVad
    \/ TranscribeFaster
    \/ TranscribeVanilla
    \/ Except
    \/ Finally

Spec == Init /\ [][Next]_vars

\* ------------------------------------------------------------------ claims
\* (transcription command line, under Spec)

IsError(r) == "error" \in DOMAIN r
HasText(r) == "text" \in DOMAIN r
Exited == pc = "exited"
Count(s, x) == Cardinality({i \in 1..Len(s) : s[i] = x})
FfmpegFailed ==
    /\ hist.ffmpeg # <<>>
    /\ hist.ffmpeg[1].outcome \in {"nonzero", "nonzero_partial"}

\* C1, as stated: once the invocation has exited by any path, none of the
\* files it staged still exists on storage.
C1_NoStagedFileLeft == Exited => hist.staged \cap fs = {}

\* C1, amended: once the invocation has exited, os.remove has been called
\* exactly once on every staged file, and a staged file still exists only if
\* that call raised (a warning is printed and nothing is escalated); the
\* original staged file stays in the release set next to its normalized
\* replacement.
C1_StagedFilesReleased ==
    /\ Exited =>
         /\ \A f \in hist.staged :
              /\ Count(hist.removed, f) = 1
              /\ f \in fs <=> f \in hist.remove_failed
         /\ Count(stderr, "Warning: Failed to remove temp file")
              = Cardinality(hist.remove_failed)
    /\ \A f \in hist.staged : pc # "exited" => f \in Range(temp_files)
    /\ (wav_file # None /\ wav_file # audio_file
        /\ args.input.input_type = "base64")
         => audio_file \in Range(temp_files) /\ wav_file \in Range(temp_files)

\* C1 witness: an invocation that staged the blob and its normalized copy and
\* then left through sys.exit(1); both files are gone.
C1_Witness ==
    /\ Exited /\ exit_code = <<1>>
    /\ Cardinality(hist.staged) = 2
    /\ hist.staged \cap fs = {}
    /\ Len(hist.removed) = 2

\* C2: the exit code is 1 whenever the printed document is an error record,
\* and 0 exactly when it is a success record or the model listing.
C2_ExitCodeFollowsRecord ==
    Exited =>
      \A i \in 1..Len(stdout) :
        /\ IsError(stdout[i]) => exit_code = <<1>>
        /\ exit_code = <<0>> <=> ~IsError(stdout[i])

\* C6: when ffmpeg exits nonzero, convert_to_wav_if_needed raises nothing and
\* returns the original path; no error record is printed for it, and the
\* backend is called on the original file (the only exit in between is the
\* malformed --vad-parameters error of the batched command line).
C6_NormalizationFailsOpen ==
    FfmpegFailed =>
      /\ pc # "except"
      /\ wav_file = audio_file
      /\ \A i \in 1..Len(stdout) :
           IsError(stdout[i]) => stdout[i].error.kind # "unexpected"
      /\ hist.backend_in \in {<<>>, <<audio_file>>}
      /\ (pc \in {"finally", "exited"} /\ args.vad_parameters # "{bad")
           => hist.backend_in = <<audio_file>>

\* C6 witness: ffmpeg failed and the backend transcribed the original file.
C6_Witness ==
    /\ Exited /\ FfmpegFailed
    /\ hist.backend_in = <<audio_file>>
    /\ result # None /\ HasText(result)
    /\ ~EndsWithDotWav(audio_file)

AllBlank(t) == \A i \in 1..Len(t) : t[i] = " "

\* C7: a record a backend returns is either an error record with no text or
\* a success record with no error; the text of a success record is never
\* empty, and is the placeholder whenever the engine's output is blank.
C7_RecordShape ==
    result # None =>
      /\ IsError(result) <=> ~HasText(result)
      /\ IsError(result) => DOMAIN result = {"error"}
      /\ HasText(result) =>
           /\ result.text # <<>>
           /\ backend = "faster" =>
                ((\A i \in 1..Len(hist.segments) : AllBlank(hist.segments[i]))
                   <=> result.text = NoSpeech)
           /\ backend = "vanilla" =>
                (AllBlank(hist.txt) <=> result.text = NoSpeech)

\* C7 witness: the batched engine yields two blank segments and the record
\* carries the placeholder.
C7_Witness ==
    /\ backend = "faster" /\ result # None /\ HasText(result)
    /\ Len(hist.segments) = 2
    /\ result.text = NoSpeech

\* C8: an unknown model identifier gives an error record that lists every
\* valid identifier; no model load is attempted, nothing is released, and no
\* exception reaches main.
C8_UnknownModel ==
    (backend = "faster" /\ result # None
     /\ args.model \notin {"tiny", "base", "small", "medium", "large-v3",
                           "large", "tiny.en", "base.en", "small.en",
                           "medium.en", "distil-small.en", "distil-medium.en",
                           "distil-large-v3", "distil-large"})
      => /\ IsError(result)
         /\ result.error.kind = "unknown_model"
         /\ result.error.lists =
              {"tiny", "base", "small", "medium", "large-v3", "large",
               "tiny.en", "base.en", "small.en", "medium.en",
               "distil-small.en", "distil-medium.en", "distil-large-v3",
               "distil-large"}
         /\ hist.loads = <<>> /\ hist.calls = <<>> /\ hist.released = 0
         /\ pending = "return"
         /\ \A i \in 1..Len(stdout) : stdout[i].error.kind # "unexpected"

\* C8 witness: the batched backend was called with the identifier "bogus".
C8_Witness ==
    /\ backend = "faster" /\ args.model = "bogus"
    /\ result # None /\ Exited
    /\ hist.backend_in # <<>>

\* C9: an invocation writes exactly one JSON document to standard output on
\* every path; the status lines go to the error stream.
C9_OneDocument ==
    /\ Len(stdout) <= 1
    /\ Exited => Len(stdout) = 1
    /\ pc \in {"finally", "exited"} => Len(stdout) = 1
    /\ \A i \in 1..Len(stdout) :
         \/ DOMAIN stdout[i] = {"error"}
         \/ DOMAIN stdout[i] = {"available_models"}
         \/ HasText(stdout[i])
    /\ \A i \in 1..Len(stderr) :
         stderr[i] \in {"device_info", "Error saving audio",
                        "FFmpeg conversion failed",
                        "Loading faster-whisper model",
                        "Warning: Failed to remove temp file"}

\* C9 witness: an invocation that left through the except block, after a
\* status line went to the error stream.
C9_Witness ==
    /\ Exited /\ Len(stdout) = 1
    /\ IsError(stdout[1]) /\ stdout[1].error.kind = "invalid_vad_json"
    /\ stderr # <<>>

\* C10, as stated: the precision used for the load and reported in the record
\* is the one the device decision selects (float16 on cuda with a compute
\* capability major version of at least 7, float32 otherwise).
C10_PrecisionFollowsDevice ==
    (backend = "faster" /\ result # None /\ HasText(result)) =>
      /\ result.compute_type =
           get_compute_type_for_device(result.device, "auto", env.cap)
      /\ \A i \in 1..Len(hist.loads) :
           hist.loads[i].compute_type = result.compute_type

\* C10, amended: the precision used for the load and reported in the record
\* is float32 on every device, whatever the compute capability.
C10_AlwaysFloat32 ==
    /\ \A i \in 1..Len(hist.loads) : hist.loads[i].compute_type = "float32"
    /\ (backend = "faster" /\ result # None /\ HasText(result)) =>
         /\ result.compute_type = "float32"
         /\ Len(hist.loads) = 1
         /\ hist.loads[1].device = result.device

\* C10 witness: a transcript made on a cuda device of capability 7.
C10_Witness ==
    /\ backend = "faster" /\ result # None /\ HasText(result)
    /\ result.device = "cuda" /\ env.cap = <<CapThreshold>>
    /\ result.compute_type = "float32"

\* C16: a transcription invocation deletes or overwrites only files it created
\* itself: in file input mode the input file is never deleted, and no file
\* that existed before the invocation began (such as a sibling of the input
\* with the same base name and a .wav extension) is overwritten by the
\* normalization or removed by the final release.
C16_OnlyOwnFilesTouched ==
    /\ args.input.input_type = "file" =>
          (args.input.path \in hist.initial => args.input.path \in fs)
    /\ hist.overwritten \cap hist.initial = {}
    /\ hist.initial \subseteq fs

\* C14: the process backend runs the external tool exactly once per call and
\* fails closed: a nonzero exit code, or a zero exit code with the expected
\* <input base name>.txt absent from the private output directory, yields an
\* error record with no text, with no second run and no exception reaching
\* the caller; and os.rmdir of the private output directory is attempted on
\* every exit path of the call, whatever the tool did.
C14_FailsClosed ==
    (backend = "vanilla" /\ hist.backend_in # <<>>) =>
      LET o == hist.tool[1]
      IN  /\ Len(hist.tool) = 1
          /\ Len(hist.whisper_calls) = 1
          /\ hist.whisper_calls[1].audio = hist.backend_in[1]
          /\ hist.rmdir = 1
          /\ result # None /\ stdout = <<result>> /\ pending = "return"
          /\ (o.kind = "exit" /\ (o.returncode # 0 \/ "txt" \notin o.wrote)) =>
                /\ IsError(result) /\ ~HasText(result)
                /\ result.error.kind \in
                     {"whisper_cli_failed", "output_not_found"}

\* C14 witness: the tool exited 0 and left a file that is not the expected
\* transcript; the call returned the "output not found" record and tried to
\* remove the directory, which stayed.
C14_Witness ==
    /\ backend = "vanilla" /\ hist.backend_in # <<>>
    /\ hist.tool[1].kind = "exit" /\ hist.tool[1].returncode = 0
    /\ hist.tool[1].wrote = {"other"}
    /\ IsError(result) /\ result.error.kind = "output_not_found"
    /\ hist.rmdir = 1 /\ hist.outdir_removed = <<FALSE>>

\* C12: for a staged file whose format is already wav (a payload sniffed as
\* wav, or a file named .wav in either case) convert_to_wav_if_needed returns
\* the identical path and runs no external process, on the first call and on
\* a repeated call; and applied to the output of a successful conversion it
\* returns that output unchanged, again without running a process.
C12_WavPassThrough ==
    LET already_wav ==
            \/ /\ args.input.input_type = "base64"
               /\ Take(args.input.bytes, 4) = MagicRIFF
               /\ Slice(args.input.bytes, 8, 12) = MagicWAVE
            \/ /\ args.input.input_type = "file"
               /\ args.input.path \in {<<"in", ".", "wav">>,
                                        <<"in", ".", "WAV">>}
        repeated_is_identity ==
            /\ FfmpegCommands(wav_file) = <<>>
            /\ \A f \in FfmpegOutcomes :
                 convert_to_wav_if_needed(wav_file, f) = wav_file
    IN  wav_file # None =>
          /\ already_wav =>
                /\ wav_file = audio_file
                /\ hist.ffmpeg = <<>>
                /\ repeated_is_identity
          /\ (hist.ffmpeg # <<>> /\ Last(hist.ffmpeg).outcome = "ok") =>
                /\ wav_file = Last(hist.ffmpeg).dst
                /\ wav_file # audio_file
                /\ repeated_is_identity

\* C12 witness: a payload sniffed as wav was staged and passed through the
\* normalization untouched.
C12_Witness ==
    /\ args.input.input_type = "base64"
    /\ detect_audio_format(args.input.bytes) = "wav"
    /\ wav_file # None /\ wav_file = audio_file
    /\ audio_file = TempPath("wav")
    /\ hist.ffmpeg = <<>>

\* C11: device selection never fails and follows the priority cuda, then mps,
\* then cpu, for the four answers of the two capability probes; the thread
\* hint handed to the engine is the physical core count on cpu and 4 on a
\* GPU device. Every call of the backend with a known model reaches the load,
\* and the load (and the record) carry the device the probes select.
C11_DevicePriority ==
    (backend = "faster" /\ hist.backend_in # <<>>) =>
      /\ (args.model \in DOMAIN MODEL_REPOSITORIES) => Len(hist.loads) = 1
      /\ \A i \in 1..Len(hist.loads) :
           LET l == hist.loads[i]
           IN  /\ env.cuda => l.device = "cuda"
               /\ (~env.cuda /\ env.mps) => l.device = "mps"
               /\ (~env.cuda /\ ~env.mps) => l.device = "cpu"
               /\ l.device = "cpu" => l.cpu_threads = env.cores
               /\ l.device \in {"cuda", "mps"} => l.cpu_threads = GpuThreads
      /\ (result # None /\ HasText(result)) =>
           /\ result.device = hist.loads[1].device
           /\ result.cpu_threads = hist.loads[1].cpu_threads

\* C11 witness: both probes answer yes and the engine was loaded on cuda with
\* the GPU thread hint.
C11_Witness ==
    /\ backend = "faster" /\ hist.backend_in # <<>>
    /\ env.cuda /\ env.mps
    /\ Len(hist.loads) = 1
    /\ hist.loads[1].device = "cuda"
    /\ hist.loads[1].cpu_threads = GpuThreads

\* ------------------------------------------------------------------------
\* tts_with_accents.py
\* ------------------------------------------------------------------------

\* Sample values, factors and table entries are in tenths: 10 is 1.0.
One == 10

MaxLen == 2       \* samples in a waveform the engine generates: 0..MaxLen
MaxAmp == 13      \* the largest magnitude of a generated sample, in tenths

\* Accent -> (exaggeration, cfg_weight), in tenths.
ACCENT_SETTINGS ==
    [a \in {"midwest", "southern", "british", "australian", "canadian",
            "newyork", "california", "texas"} |->
        CASE a = "midwest" -> [exaggeration |-> 4, cfg_weight |-> 5]
          [] a = "southern" -> [exaggeration |-> 6, cfg_weight |-> 4]
          [] a = "british" -> [exaggeration |-> 3, cfg_weight |-> 6]
          [] a = "australian" -> [exaggeration |-> 5, cfg_weight |-> 4]
          [] a = "canadian" -> [exaggeration |-> 3, cfg_weight |-> 5]
          [] a = "newyork" -> [exaggeration |-> 7, cfg_weight |-> 3]
          [] a = "california" -> [exaggeration |-> 4, cfg_weight |-> 4]
          [] a = "texas" -> [exaggeration |-> 8, cfg_weight |-> 3]]

Abs(x) == IF x < 0 THEN -x ELSE x
Sign(x) == IF x < 0 THEN -1 ELSE 1

\* int(a / b) for b # 0: the quotient truncated toward zero.
TruncDiv(a, b) == Sign(a) * Sign(b) * (Abs(a) \div Abs(b))

\* ceil(a / b) for a >= 0, b > 0
CeilDiv(a, b) == (a + b - 1) \div b

\* torchaudio.functional.resample(wav, orig_freq, new_freq) for positive
\* rates: ceil(new_freq * length / orig_freq) samples, the waveform itself
\* when the rates are equal. The kernel's interpolated values are modelled by
\* the nearest earlier input sample.
Resample(wav, orig_freq, new_freq) ==
    IF orig_freq = new_freq THEN wav
    ELSE [i \in 1..CeilDiv(new_freq * Len(wav), orig_freq) |->
            wav[((i - 1) * orig_freq) \div new_freq + 1]]

\* torch.nn.functional.interpolate(wav, size=target_length, mode='linear')
\* for target_length > 0 on a non-empty waveform, values as in Resample.
Interpolate(wav, target_length) ==
    [i \in 1..target_length |-> wav[((i - 1) * Len(wav)) \div target_length + 1]]

\* wav * f for a factor f in tenths, rounded toward zero to a tenth.
Scaled(wav, f) == [i \in 1..Len(wav) |-> TruncDiv(wav[i] * f, One)]

\* round(10 * tanh(0.08 * k)) for k = 0, 1, ...: tanh(0.8 * x) in tenths.
TanhTable ==
    <<0, 1, 2, 2, 3, 4, 4, 5, 6, 6, 7, 7, 7, 8, 8, 8, 9, 9, 9, 9, 9, 9, 9>>

Tanh08(x) ==
    Sign(x) * (IF Abs(x) + 1 <= Len(TanhTable) THEN TanhTable[Abs(x) + 1]
               ELSE One)

\* torch.clamp(wav, -1.0, 1.0)
Clamp(wav) ==
    [i \in 1..Len(wav) |->
        IF wav[i] > One THEN One ELSE IF wav[i] < -One THEN -One ELSE wav[i]]

\* A plausible slip: the product rounded to the nearest integer (halves up).
PitchTargetRateRounded(sample_rate, pitch_factor) ==
    Sign(pitch_factor) * ((2 * sample_rate * Abs(pitch_factor) + One)
                          \div (2 * One))

\* target_sr = int(sample_rate * pitch_factor): the product truncated toward
\* zero (pitch_factor is in tenths).
PitchTargetRate(sample_rate, pitch_factor) ==
    TruncDiv(sample_rate * pitch_factor, One)

\* settings.get(key, default) followed by float(): the value in tenths.
Factor(field) == IF field.p = "absent" THEN One ELSE field.v

\* The chain of apply_voice_modifications up to a raise. The value is the
\* local variable wav when the function returns, the step that raised
\* ("none" when none did), the steps that rebound wav, and target_sr when the
\* pitch step computed it (<<>> when it did not).
\*   settings.kind = "other": a JSON value with no .get (AttributeError)
\*   field.p = "bad": a value float() rejects
\*   int(sample_rate * pitch_factor) <= 0: resample raises ValueError
\*   speed_factor = 0: ZeroDivisionError
ShapingChain(wav, settings, sample_rate) ==
    IF settings.kind # "object"
       \/ settings.pitch.p = "bad" \/ settings.speed.p = "bad"
    THEN [wav |-> wav, raised |-> "settings", done |-> {}, target_sr |-> <<>>]
    ELSE
    LET pitch_factor == Factor(settings.pitch)
        speed_factor == Factor(settings.speed)
        tone == settings.tone
        target_sr == PitchTargetRate(sample_rate, pitch_factor)
        rate == IF pitch_factor # One THEN <<target_sr>> ELSE <<>>
    IN  IF pitch_factor # One /\ target_sr <= 0
        THEN [wav |-> wav, raised |-> "pitch", done |-> {}, target_sr |-> rate]
        ELSE
        LET w1 == IF pitch_factor # One
                  THEN Resample(Resample(wav, sample_rate, target_sr),
                                target_sr, sample_rate)
                  ELSE wav
            d1 == IF pitch_factor # One THEN {"pitch"} ELSE {}
        IN  IF speed_factor # One /\ speed_factor = 0
            THEN [wav |-> w1, raised |-> "speed", done |-> d1,
                  target_sr |-> rate]
            ELSE
            LET target_length == IF speed_factor # One
                                 THEN TruncDiv(Len(w1) * One, speed_factor)
                                 ELSE 0
                resized == speed_factor # One /\ target_length > 0
                w2 == IF resized THEN Interpolate(w1, target_length) ELSE w1
                d2 == IF resized THEN d1 \cup {"speed"} ELSE d1
                w3 == CASE tone = "happy" -> Scaled(w2, 11)
                        [] tone = "serious" -> Scaled(w2, 9)
                        [] tone = "calm" ->
                             [i \in 1..Len(w2) |-> Tanh08(w2[i])]
                        [] tone = "excited" -> Scaled(w2, 12)
                        [] OTHER -> w2
                d3 == IF tone \in {"happy", "serious", "calm", "excited"}
                      THEN d2 \cup {"tone"} ELSE d2
            IN  [wav |-> Clamp(w3), raised |-> "none",
                 done |-> d3 \cup {"clamp"}, target_sr |-> rate]

\* What apply_voice_modifications returns: wav after the chain, and on an
\* exception the local wav as the failing step found it.
apply_voice_modifications(wav, settings, sample_rate) ==
    ShapingChain(wav, settings, sample_rate).wav

\* ------------------------------------------------ the inputs of a synthesis

Absent == [p |-> "absent", v |-> 0]
BadNumber == [p |-> "bad", v |-> 0]

PitchFields ==
    {Absent, BadNumber} \cup {[p |-> "num", v |-> x] : x \in {0, 5, 10, 12, 15}}

SpeedFields ==
    {Absent, BadNumber} \cup {[p |-> "num", v |-> x] : x \in {-10, 0, 5, 10, 20}}

Tones == {"neutral", "happy", "serious", "calm", "excited", "other"}

\* json.loads(args.voice_settings): an object, another JSON value that is
\* truthy ("other"), or no JSON at all ("malformed"). tone absent reads as
\* "neutral"; present records whether the key is given.
VoiceSettings ==
    [kind : {"object"}, pitch : PitchFields, speed : SpeedFields,
     tone : Tones, tone_given : {TRUE}]
    \cup [kind : {"object"}, pitch : PitchFields, speed : SpeedFields,
          tone : {"neutral"}, tone_given : {FALSE}]
    \cup [kind : {"other", "malformed"}, pitch : {Absent}, speed : {Absent},
          tone : {"neutral"}, tone_given : {FALSE}]

\* bool(voice_settings): an empty object is falsy.
Truthy(settings) ==
    \/ settings.kind = "other"
    \/ /\ settings.kind = "object"
       /\ \/ settings.pitch.p # "absent"
          \/ settings.speed.p # "absent"
          \/ settings.tone_given

Accents == {"midwest", "texas", "klingon"}

SampleRates == {2, 3}

SampleValues == {-MaxAmp, -One, 0, One, MaxAmp}

Waveforms == UNION {[1..n -> SampleValues] : n \in 0..MaxLen}

NoLog ==
    [shaped |-> FALSE, shape_in |-> <<>>, raised |-> "none", done |-> {},
     saved |-> FALSE, out |-> <<>>, exaggeration |-> 0, cfg_weight |-> 0,
     sr |-> 0, exit |-> <<>>, printed |-> <<>>, target_sr |-> <<>>]

InitSynth ==
    /\ tpc = "start"
    /\ targs \in [accent : Accents, voice_settings : VoiceSettings]
    /\ tengine = <<>>
    /\ twav = <<>>
    /\ tlog = NoLog
    /\ IdleCli /\ IdleSniff

\* ------------------------------------------------ the steps of the synthesis

\* parser.parse_args(): --accent outside choices=ACCENT_SETTINGS.keys() is an
\* argparse error (usage on the error stream, exit status 2).
TtsParseArgs ==
    /\ tpc = "start"
    /\ IF targs.accent \in DOMAIN ACCENT_SETTINGS
       THEN tpc' = "settings" /\ UNCHANGED tlog
       ELSE tpc' = "exited" /\ tlog' = [tlog EXCEPT !.exit = <<2>>]
    /\ UNCHANGED <<targs, tengine, twav>>
    /\ UNCHANGED <<cliVars, sniffVars>>

\* voice_settings = json.loads(args.voice_settings); JSONDecodeError prints
\* the parse error and sys.exit(1).
TtsParseSettings ==
    /\ tpc = "settings"
    /\ IF targs.voice_settings.kind = "malformed"
       THEN /\ tpc' = "exited"
            /\ tlog' = [tlog EXCEPT !.exit = <<1>>,
                          !.printed = Append(@, "Error parsing voice settings JSON")]
       ELSE tpc' = "load" /\ UNCHANGED tlog
    /\ UNCHANGED <<targs, tengine, twav>>
    /\ UNCHANGED <<cliVars, sniffVars>>

\* Device choice and ChatterboxTTS.from_pretrained(device=device); a failed
\* load is caught by except Exception: sys.exit(1).
TtsLoadModel ==
    /\ tpc = "load"
    /\ \E e \in Envs, sr \in SampleRates, loaded \in BOOLEAN :
         IF loaded
         THEN /\ tengine' = [device |-> detect_best_device(e), sr |-> sr]
              /\ tlog' = [tlog EXCEPT !.sr = sr]
              /\ tpc' = "generate"
         ELSE /\ tlog' = [tlog EXCEPT !.exit = <<1>>,
                            !.printed = Append(@, "Error generating TTS")]
              /\ tpc' = "exited"
              /\ UNCHANGED tengine
    /\ UNCHANGED <<targs, twav>>
    /\ UNCHANGED <<cliVars, sniffVars>>

\* accent_config = ACCENT_SETTINGS.get(args.accent, ACCENT_SETTINGS['midwest'])
AccentConfig(accent) ==
    IF accent \in DOMAIN ACCENT_SETTINGS THEN ACCENT_SETTINGS[accent]
    ELSE ACCENT_SETTINGS["midwest"]

\* wav = model.generate(text, exaggeration=..., cfg_weight=...)
TtsGenerate ==
    /\ tpc = "generate"
    /\ \E raw \in Waveforms, ok \in BOOLEAN :
         LET accent_config == AccentConfig(targs.accent)
         IN  IF ok
             THEN /\ twav' = raw
                  /\ tlog' = [tlog EXCEPT
                                !.exaggeration = accent_config.exaggeration,
                                !.cfg_weight = accent_config.cfg_weight]
                  /\ tpc' = "shape"
             ELSE /\ raw = <<>>
                  /\ tlog' = [tlog EXCEPT !.exit = <<1>>,
                                !.printed = Append(@, "Error generating TTS")]
                  /\ tpc' = "exited"
                  /\ UNCHANGED twav
    /\ UNCHANGED <<targs, tengine>>
    /\ UNCHANGED <<cliVars, sniffVars>>

\* if voice_settings: wav = apply_voice_modifications(wav, voice_settings, model.sr)
TtsShape ==
    /\ tpc = "shape"
    /\ IF Truthy(targs.voice_settings)
       THEN LET c == ShapingChain(twav, targs.voice_settings, tengine.sr)
            IN  /\ twav' = apply_voice_modifications(twav, targs.voice_settings,
                                                     tengine.sr)
                /\ tlog' = [tlog EXCEPT
                     !.shaped = TRUE, !.shape_in = twav,
                     !.raised = c.raised, !.done = c.done,
                     !.target_sr = c.target_sr,
                     !.printed = IF c.raised # "none"
                         THEN Append(@,
                                "Warning: Could not apply voice modifications")
                         ELSE @]
       ELSE UNCHANGED <<twav, tlog>>
    /\ tpc' = "save"
    /\ UNCHANGED <<targs, tengine>>
    /\ UNCHANGED <<cliVars, sniffVars>>

\* torchaudio.save(args.output, wav, model.sr), the file info, return; a
\* failed save is caught by except Exception: sys.exit(1).
TtsSave ==
    /\ tpc = "save"
    /\ \E ok \in BOOLEAN :
         IF ok
         THEN tlog' = [tlog EXCEPT !.saved = TRUE, !.out = twav,
                                   !.exit = <<0>>,
                                   !.printed = Append(@, "Audio saved")]
         ELSE tlog' = [tlog EXCEPT !.exit = <<1>>,
                                   !.printed = Append(@, "Error generating TTS")]
    /\ tpc' = "exited"
    /\ UNCHANGED <<targs, tengine, twav>>
    /\ UNCHANGED <<cliVars, sniffVars>>

NextSynth ==
    \/ TtsParseArgs
    \/ TtsParseSettings
    \/ TtsLoadModel
    \/ TtsGenerate
    \/ TtsShape
    \/ TtsSave

SpecSynth == InitSynth /\ [][NextSynth]_vars

\* --------------------------------------------- detect_audio_format on its own

\* 4-byte groups a header is put together from.
Chunks ==
    { MagicWebm, MagicRIFF, MagicWAVE, MagicFtyp,
      SyncFFFB \o <<0, 0>>, SyncFFFA \o <<0, 0>>, <<255, 243, 0, 0>>,
      <<26, 69, 223, 0>>, <<0, 0, 0, 0>> }

MaxBufLen == 13   \* bytes in a buffer: 0..MaxBufLen

Buffers ==
    {Take(a \o b \o c \o MagicWAVE \o MagicFtyp, n) :
        a \in Chunks, b \in Chunks, c \in Chunks, n \in 0..MaxBufLen}

InitSniff ==
    /\ spc = "start"
    /\ buf \in Buffers
    /\ fmt = "none"
    /\ IdleCli /\ IdleSynth

\* fmt = detect_audio_format(buf)
Sniff ==
    /\ spc = "start"
    /\ fmt' = detect_audio_format(buf)
    /\ spc' = "done"
    /\ UNCHANGED buf
    /\ UNCHANGED <<cliVars, synthVars>>

NextSniff == Sniff

SpecSniff == InitSniff /\ [][NextSniff]_vars

\* ------------------------------------------------------------------ claims
\* (synthesis, under SpecSynth)

InRange(wav) == \A i \in 1..Len(wav) : -One <= wav[i] /\ wav[i] <= One

\* C3: when a step of the shaping chain raises, apply_voice_modifications
\* returns the waveform it was given, unmodified by any step that completed
\* before the failure.
C3_OriginalReturnedOnFailure ==
    (tlog.shaped /\ tlog.raised # "none") => twav = tlog.shape_in

\* C4: the waveform written to the output file has every sample in
\* [-1.0, 1.0], for every engine waveform and every voice-settings record.
C4_SavedSamplesInRange == tlog.saved => InRange(tlog.out)

\* C15, as stated: for every sample rate sr and every pitch_factor > 0 other
\* than 1.0 the intermediate rate of the pitch round trip is round(sr x
\* pitch_factor), the nearest integer to the product; the step is skipped
\* entirely when pitch_factor = 1.0.
C15_RoundedRate ==
    LET pitch == targs.voice_settings.pitch
        reached == tlog.shaped /\ tlog.raised # "settings"
    IN  /\ (reached /\ pitch.p = "num" /\ pitch.v > 0 /\ pitch.v # 10) =>
              /\ Len(tlog.target_sr) = 1
              /\ 2 * Abs(tlog.target_sr[1] * 10 - tlog.sr * pitch.v) <= 10
        /\ (reached /\ (pitch.p = "absent" \/ pitch.v = 10)) =>
              tlog.target_sr = <<>> /\ "pitch" \notin tlog.done

\* C15, amended: the intermediate rate is int(sr x pitch_factor), the product
\* truncated toward zero; the round trip runs when that rate is positive and
\* the chain stops at its exception handler when it is 0; the step is skipped
\* entirely when pitch_factor = 1.0.
C15_TruncatedRate ==
    LET pitch == targs.voice_settings.pitch
        reached == tlog.shaped /\ tlog.raised # "settings"
    IN  /\ (reached /\ pitch.p = "num" /\ pitch.v > 0 /\ pitch.v # 10) =>
              /\ Len(tlog.target_sr) = 1
              /\ tlog.target_sr[1] * 10 <= tlog.sr * pitch.v
              /\ tlog.sr * pitch.v < (tlog.target_sr[1] + 1) * 10
              /\ tlog.target_sr[1] > 0 => "pitch" \in tlog.done
              /\ tlog.target_sr[1] = 0 =>
                    tlog.raised = "pitch" /\ twav = tlog.shape_in
        /\ (reached /\ (pitch.p = "absent" \/ pitch.v = 10)) =>
              tlog.target_sr = <<>> /\ "pitch" \notin tlog.done

\* C15 witness: rate 3 and pitch factor 1.2 (product 3.6): the round trip ran
\* through the intermediate rate 3.
C15_Witness ==
    /\ tlog.shaped /\ tlog.raised = "none"
    /\ targs.voice_settings.pitch = [p |-> "num", v |-> 12]
    /\ tlog.sr = 3
    /\ tlog.target_sr = <<3>>
    /\ "pitch" \in tlog.done

\* C13, as stated: the synthesis invocation never fails solely because the
\* accent id is not one of the eight table entries: such an id is resolved to
\* the midwest entry (0.4, 0.5) and synthesis proceeds; texas resolves to its
\* own entry (0.8, 0.3) and, with no voice-settings override, no shaping step
\* is applied.
C13_UnknownAccentFallsBack ==
    LET generated == tpc \in {"shape", "save"} \/ tlog.saved
        unknown == targs.accent \notin
                     {"midwest", "southern", "british", "australian",
                      "canadian", "newyork", "california", "texas"}
    IN  /\ (unknown /\ tpc = "exited") => tlog.exit # <<2>>
        /\ (unknown /\ generated) =>
              tlog.exaggeration = 4 /\ tlog.cfg_weight = 5
        /\ (targs.accent = "texas" /\ generated) =>
              tlog.exaggeration = 8 /\ tlog.cfg_weight = 3
        /\ (targs.accent = "texas" /\ ~Truthy(targs.voice_settings)) =>
              ~tlog.shaped /\ tlog.done = {}

\* ------------------------------------------------------------------ claims
\* (detect_audio_format, under SpecSniff)

\* C5: detect_audio_format follows the decision table, first match wins:
\* fewer than 12 bytes is unknown; else the webm magic is webm; else RIFF at
\* 0 and WAVE at 8 is wav, whatever follows; else an MPEG frame sync is mp3;
\* else ftyp at 4 is m4a; every other buffer is webm, never unknown. The
\* answer is the one the first 12 bytes alone give.
C5_DecisionTable ==
    spc = "done" =>
      LET n == Len(buf)
          B(i) == buf[i + 1]
          webm == B(0) = 26 /\ B(1) = 69 /\ B(2) = 223 /\ B(3) = 163
          wav == /\ B(0) = 82 /\ B(1) = 73 /\ B(2) = 70 /\ B(3) = 70
                 /\ B(8) = 87 /\ B(9) = 65 /\ B(10) = 86 /\ B(11) = 69
          mp3 == B(0) = 255 /\ B(1) \in {251, 250}
          m4a == B(4) = 102 /\ B(5) = 116 /\ B(6) = 121 /\ B(7) = 112
      IN  /\ n < 12 => fmt = "unknown"
          /\ n >= 12 =>
               /\ fmt # "unknown"
               /\ fmt = detect_audio_format(Take(buf, 12))
               /\ webm => fmt = "webm"
               /\ (~webm /\ wav) => fmt = "wav"
               /\ (~webm /\ ~wav /\ mp3) => fmt = "mp3"
               /\ (~webm /\ ~wav /\ ~mp3 /\ m4a) => fmt = "m4a"
               /\ (~webm /\ ~wav /\ ~mp3 /\ ~m4a) => fmt = "webm"

\* C5 witness: a buffer of 12 or more bytes that matches no signature sniffs
\* as webm.
C5_Witness ==
    /\ spc = "done" /\ Len(buf) > 12
    /\ buf[1] = 255 /\ buf[2] = 243
    /\ SubSeq(buf, 5, 8) # MagicFtyp
    /\ fmt = "webm"

====
